---- MODULE Spec2Model ----
\* A model of wbf (src/main.rs): one run of `main`, from the terminal set-up
\* through the scan loop to the CSV export and the process exit.
EXTENDS Integers, Sequences, FiniteSets, TLC

\* ------------------------------------------------------------------ bounds
\* Largest number of items taken from the walker in one run.
MaxItems == 3

\* Largest file size (bytes) an entry's metadata reports, and largest
\* value given to --min-size.
MaxSize == 1

\* Largest value given to --depth.
MaxDepthOpt == 1

\* ------------------------------------------------------------- Option<T>
\* Rust's Option, as a record so that both variants compare.
Some(v) == [some |-> TRUE, val |-> v]

NoneInt == [some |-> FALSE, val |-> 0]

NoneStr == [some |-> FALSE, val |-> <<>>]

\* Option::unwrap_or
UnwrapOr(o, d) == IF o.some THEN o.val ELSE d

\* ------------------------------------------------------------------ paths
\* A path is a sequence of one-character strings.  "#" stands for a byte
\* sequence that is not valid UTF-8.  The scan root is the absolute path /r.
RootPath == <<"/", "r">>

\* File names a directory may contain.
Names == {"a", "x", "#"}

RECURSIVE DirPath(_)
\* The path of the directory the walker reports at depth d: /r, /r/d, /r/d/d ...
DirPath(d) == IF d = 0 THEN RootPath ELSE DirPath(d - 1) \o <<"/", "d">>

\* The path of the non-directory named n the walker reports at depth d >= 1.
LeafPath(d, n) == DirPath(d - 1) \o <<"/", n>>

\* What read_link may return for a symbolic link: the text stored in the
\* link, here the absolute path of the file /r/x.
LinkTargets == {LeafPath(1, "x")}

\* Path::to_str: None when the path is not valid UTF-8.
ToStr(path) ==
    IF \E i \in 1..Len(path) : path[i] = "#" THEN NoneStr ELSE Some(path)

\* ------------------------------------------------------------------ regex
\* The filter strings a run may be given: a literal and an unclosed group.
FilterStrings == {<<"x">>, <<"(">>}

\* Regex::new succeeds unless the expression has an unclosed group.
RegexValid(s) == \A i \in 1..Len(s) : s[i] # "("

\* Regex::is_match for a literal expression: an unanchored substring search.
IsMatch(re, text) ==
    \E i \in 1..(Len(text) - Len(re) + 1) : SubSeq(text, i, i + Len(re) - 1) = re

\* ---------------------------------------------------------------- options
\* struct Opt (the scan root is fixed to RootPath).
Opts ==
    [depth : {NoneInt} \cup {Some(d) : d \in 0..MaxDepthOpt},
     disable_symlinks : BOOLEAN,
     filter : {NoneStr} \cup {Some(s) : s \in FilterStrings},
     min_size : {NoneInt} \cup {Some(m) : m \in 1..MaxSize},
     output_file : BOOLEAN]

\* --------------------------------------------------------------- terminal
\* The terminal as the user left it.
OriginalTerminal ==
    [raw |-> FALSE, mouse |-> FALSE, alternate |-> FALSE, cursor_hidden |-> FALSE]

\* After into_raw_mode, MouseTerminal::from and AlternateScreen::from.
ScreenTerminal ==
    [raw |-> TRUE, mouse |-> TRUE, alternate |-> TRUE, cursor_hidden |-> FALSE]

\* ------------------------------------------------------------ walker items
\* One item of the walker: Ok(DirEntry) or Err(walkdir::Error).  read_link is
\* what fs::read_link(entry.path()) returns and metadata what entry.metadata()
\* returns (the length in bytes), should the loop ask.
OkItem(depth, path, is_dir, path_is_symlink, read_link, metadata) ==
    [ok |-> TRUE, depth |-> depth, path |-> path, is_dir |-> is_dir,
     path_is_symlink |-> path_is_symlink, read_link |-> read_link,
     metadata |-> metadata]

ErrItem(depth) ==
    [ok |-> FALSE, depth |-> depth, path |-> <<>>, is_dir |-> FALSE,
     path_is_symlink |-> FALSE, read_link |-> NoneStr, metadata |-> NoneInt]

\* What the loop reads of an item before it resolves the path: whether it is
\* an entry, its depth, whether it is a directory, and its metadata.
Seen(it) ==
    [ok |-> it.ok, depth |-> it.depth, is_dir |-> it.is_dir, metadata |-> it.metadata]

\* The value of `item` before the loop has taken anything.
NoItem == Seen(ErrItem(0))

Metadatas == {NoneInt} \cup {Some(n) : n \in 0..MaxSize}

ReadLinks == {NoneStr} \cup {Some(t) : t \in LinkTargets}

\* The non-directory entries a directory at depth d - 1 may hold: files and
\* symbolic links (none of which names itself).
Leaves(d) ==
    {OkItem(d, LeafPath(d, n), FALSE, FALSE, NoneStr, m) :
        n \in Names, m \in Metadatas}
    \cup
    {it \in {OkItem(d, LeafPath(d, n), FALSE, TRUE, l, m) :
                n \in Names, l \in ReadLinks, m \in Metadatas} :
        it.read_link.some => it.read_link.val # it.path}

\* The directory at depth d, met as such or through a symbolic link.
Dirs(d) == {OkItem(d, DirPath(d), TRUE, s, NoneStr, NoneInt) : s \in BOOLEAN}

\* What a walk may find at the root: a directory, a non-directory, or an
\* error (the root does not exist or cannot be read).
RootItems ==
    {OkItem(0, RootPath, TRUE, FALSE, NoneStr, NoneInt), ErrItem(0)}
    \cup {OkItem(0, RootPath, FALSE, FALSE, NoneStr, m) : m \in Metadatas}

\* What a walk may find at each depth: an entry, or an error.
ItemsAt ==
    [d \in 0..MaxItems |->
        IF d = 0 THEN RootItems ELSE Dirs(d) \cup Leaves(d) \cup {ErrItem(d)}]

\* ------------------------------------------------------------ snapshots
\* What the closure of terminal.draw and the export read: the map and the
\* total as they are at that moment.
Snapshot(m, t) == [shown |-> TRUE, entries |-> m, total |-> t]

\* No frame was drawn yet.
NoFrame == [shown |-> FALSE, entries |-> [k \in {} |-> 0], total |-> 0]

\* The output file before the export.
NoExport == [created |-> FALSE, from |-> NoFrame, written |-> 0, flushed |-> FALSE]

VARIABLES
    opt,        \* the parsed command line
    target_len, \* the file system: the length of the file the links name
    pc,         \* position in main: "init", "regex", "walk", "export", "exited"
    terminal,   \* the terminal's mode
    exit_code,  \* -1 while running, then the process exit code
    cause,      \* history: why main was left
    steps,      \* items taken from the walker so far
    wdepth,     \* walker: depth of the directory being read, -1 when none
    yielded,    \* walker: paths already yielded
    root,       \* history: what the walker found at the scan root
    item,       \* the item taken by the latest loop iteration
    total,      \* the running total
    entries,    \* the path-to-size map, a function from keys to sizes
    drawn,      \* whether the latest loop iteration reached terminal.draw
    frame,      \* what the latest frame was rendered from
    exported,   \* the output file: created, rendered from, rows written, flushed
    deepest,    \* history: largest walker depth of an inserted entry, -1 if none
    resolved    \* history: keys inserted from a read_link result

vars == <<opt, target_len, pc, terminal, exit_code, cause, steps, wdepth, yielded, root, item,
          total, entries, drawn, frame, exported, deepest, resolved>>

\* The walker's own state.
walk == <<steps, wdepth, yielded, root, item>>

\* The aggregation and what was drawn from it.
agg == <<total, entries, drawn, frame, deepest, resolved>>

Init ==
    /\ opt \in Opts
    /\ target_len \in 0..MaxSize
    /\ pc = "init"
    /\ terminal = OriginalTerminal
    /\ exit_code = -1
    /\ cause = "running"
    /\ steps = 0
    /\ wdepth = -1
    /\ yielded = {}
    /\ root = "unread"
    /\ item = NoItem
    /\ total = 0
    /\ entries = [k \in {} |-> 0]
    /\ drawn = FALSE
    /\ frame = NoFrame
    /\ exported = NoExport
    /\ deepest = -1
    /\ resolved = {}

\* ------------------------------------------------------------------- exit
\* A variant of DropTerminal: only the raw-mode guard is released, the screen,
\* the mouse reporting and the cursor are left as they are.
DropRawModeOnly(t) == [t EXCEPT !.raw = FALSE]

\* The locals that own the terminal go out of scope when main returns or
\* unwinds: Terminal shows the cursor again, AlternateScreen switches back to
\* the main screen, MouseTerminal turns mouse reporting off and RawTerminal
\* restores the saved attributes.
DropTerminal(t) == OriginalTerminal

\* main returns Ok(()).
ExitOk == 0

\* main returns Err(e): the runtime reports it and exits with 1.
ExitErr == 1

\* a panic (expect, unwrap) unwinds main and exits with 101.
ExitPanic == 101

\* Leave main with the given code for the given reason, dropping its locals.
Leave(code, why) ==
    /\ pc' = "exited"
    /\ exit_code' = code
    /\ cause' = why
    /\ terminal' = DropTerminal(terminal)

\* ------------------------------------------------------- terminal set-up
\* io::stdout().into_raw_mode()? fails: no guard exists yet and the terminal
\* was not changed.
RawModeFails ==
    /\ pc = "init"
    /\ pc' = "exited"
    /\ exit_code' = ExitErr
    /\ cause' = "raw_mode"
    /\ UNCHANGED <<opt, target_len, terminal, walk, agg, exported>>

\* Terminal::new(backend)? or terminal.hide_cursor()? fails after the screen
\* was switched; the guards are dropped by the early return.
TerminalNewFails ==
    /\ pc = "init"
    /\ pc' = "exited"
    /\ exit_code' = ExitErr
    /\ cause' = "terminal_new"
    /\ terminal' = DropTerminal(ScreenTerminal)
    /\ UNCHANGED <<opt, target_len, walk, agg, exported>>

\* Lines 48-53 succeed.
TerminalInit ==
    /\ pc = "init"
    /\ terminal' = [ScreenTerminal EXCEPT !.cursor_hidden = TRUE]
    /\ pc' = "regex"
    /\ UNCHANGED <<opt, target_len, exit_code, cause, walk, agg, exported>>

\* ------------------------------------------------------------ the filter
\* Regex::new(&filter).expect("Regex is invalid!") panics.
RegexInvalid ==
    /\ pc = "regex"
    /\ opt.filter.some
    /\ ~RegexValid(opt.filter.val)
    /\ Leave(ExitPanic, "regex")
    /\ UNCHANGED <<opt, target_len, walk, agg, exported>>

\* regex_opt is built (or there is no filter) and the walker is created.
RegexReady ==
    /\ pc = "regex"
    /\ opt.filter.some => RegexValid(opt.filter.val)
    /\ pc' = "walk"
    /\ UNCHANGED <<opt, target_len, terminal, exit_code, cause, walk, agg, exported>>

\* The filter_entry closure: TRUE keeps the entry.
FilterEntry(path) ==
    IF opt.filter.some
    THEN IF ToStr(path).some
         THEN ~IsMatch(opt.filter.val, ToStr(path).val)
         ELSE FALSE
    ELSE TRUE

\* ------------------------------------------------------------ the walker
\* follow_links(!opt.disable_symlinks)
FollowLinks == ~opt.disable_symlinks

\* The file entry.metadata() reads: the entry itself, or what a followed
\* link names (unknown, <<>>, when the link cannot be read); a link that is
\* not followed gives its own metadata.
MetadataOf(it) ==
    IF ~it.path_is_symlink THEN it.path
    ELSE IF FollowLinks /\ it.read_link.some THEN it.read_link.val
    ELSE <<>>

\* The items the walker, wrapped in filter_entry, can yield next in a
\* depth-first walk: an entry or an error in the directory being read or in
\* one of its ancestors.  Errors pass through, entries must pass the closure,
\* no path is yielded twice, a symbolic link is reported as a directory only
\* when links are followed, and the file the links name has one length.
WalkerItems ==
    {it \in UNION {ItemsAt[d] : d \in (IF steps = 0 THEN {0} ELSE 1..(wdepth + 1))} :
        it.ok => /\ it.path \notin yielded
                 /\ (it.is_dir /\ it.path_is_symlink) => FollowLinks
                 /\ (it.metadata.some /\ MetadataOf(it) \in LinkTargets)
                        => it.metadata.val = target_len
                 /\ FilterEntry(it.path)}

\* The for loop takes `it` from the walker.
Take(it) ==
    /\ steps' = steps + 1
    /\ item' = Seen(it)
    /\ wdepth' = IF it.ok /\ it.is_dir THEN it.depth ELSE it.depth - 1
    /\ yielded' = IF it.ok THEN yielded \cup {it.path} ELSE yielded
    /\ root' = IF steps > 0 THEN root
               ELSE IF ~it.ok THEN "error"
               ELSE IF it.is_dir THEN "dir" ELSE "file"

\* ------------------------------------------------------------ formatting
\* format!("{:.*}%", 2, (size as f64 / total as f64) * 100_f64): 0/0 is NaN,
\* n/0 is infinite, anything else is a number with two decimals, here in
\* hundredths of a percent.
Percentage(size, t) ==
    IF t = 0
    THEN [kind |-> IF size = 0 THEN "NaN" ELSE "inf", hundredths |-> 0]
    ELSE [kind |-> "num", hundredths |-> (2 * 10000 * size + t) \div (2 * t)]

\* One row of the table or of the export.  The second column is the
\* human-readable rendering of size_bytes.
RowOf(path, size_bytes, t) ==
    [path |-> path, size_bytes |-> size_bytes, percentage |-> Percentage(size_bytes, t)]

\* entries.iter().collect() followed by sort_by on the size, largest first:
\* the map iterates in any order and the sort keeps ties as it finds them.
SortedEntries(m) ==
    {s \in [1..Cardinality(DOMAIN m) -> DOMAIN m] :
        /\ \A i, j \in DOMAIN s : i # j => s[i] # s[j]
        /\ \A i, j \in DOMAIN s : i < j => m[s[i]] >= m[s[j]]}

\* The row sequences a snapshot may be rendered as.
RowsOf(snap) ==
    {[i \in DOMAIN s |-> RowOf(s[i], snap.entries[s[i]], snap.total)] :
        s \in SortedEntries(snap.entries)}

\* --------------------------------------------------------- the scan loop
\* A variant of TooDeep: the comparison is off by one level.
TooDeepOffByOne(it) ==
    opt.depth.some /\ opt.depth.val > 0 /\ it.depth > opt.depth.val + 1

\* depth > 0 && entry.depth() > depth
TooDeep(it) == opt.depth.some /\ opt.depth.val > 0 /\ it.depth > opt.depth.val

\* realpath: the link's text for a symbolic link that can be read.
RealPath(it) ==
    IF it.path_is_symlink /\ it.read_link.some THEN it.read_link.val ELSE it.path

\* (Some(path), Ok(metadata)) = (realpath.to_str(), entry.metadata())
Recordable(it) == ToStr(RealPath(it)).some /\ it.metadata.some

\* A variant of TooSmall: the comparison is off by one byte.
TooSmallOffByOne(size) == size + 1 < UnwrapOr(opt.min_size, 0)

\* size < opt.min_size.unwrap_or(0)
TooSmall(size) == size < UnwrapOr(opt.min_size, 0)

\* HashMap::insert: the last write wins.
Insert(m, k, v) == [x \in DOMAIN m \cup {k} |-> IF x = k THEN v ELSE m[x]]

\* terminal.draw(..) on the state the iteration produced: the frame is
\* drawn, or the draw fails and `?` returns the error.
Draw ==
    /\ drawn' = TRUE
    /\ \/ frame' = Snapshot(entries', total')
          /\ UNCHANGED <<pc, terminal, exit_code, cause>>
       \/ UNCHANGED frame
          /\ Leave(ExitErr, "draw")

\* A variant of StepBreak: `continue` in place of `break`.
StepBreakContinues ==
    /\ pc = "walk"
    /\ steps < MaxItems
    /\ \E it \in WalkerItems :
        /\ it.ok /\ TooDeep(it)
        /\ Take(it)
    /\ drawn' = FALSE
    /\ UNCHANGED <<opt, target_len, pc, terminal, exit_code, cause, total, entries, frame,
                   deepest, resolved, exported>>

\* break: the entry is beyond the depth limit.
StepBreak ==
    /\ pc = "walk"
    /\ steps < MaxItems
    /\ \E it \in WalkerItems :
        /\ it.ok /\ TooDeep(it)
        /\ Take(it)
    /\ pc' = "export"
    /\ drawn' = FALSE
    /\ UNCHANGED <<opt, target_len, terminal, exit_code, cause, total, entries, frame,
                   deepest, resolved, exported>>

\* continue: the entry is a directory.
StepSkipDir ==
    /\ pc = "walk"
    /\ steps < MaxItems
    /\ \E it \in WalkerItems :
        /\ it.ok /\ ~TooDeep(it) /\ it.is_dir
        /\ Take(it)
    /\ drawn' = FALSE
    /\ UNCHANGED <<opt, target_len, pc, terminal, exit_code, cause, total, entries, frame,
                   deepest, resolved, exported>>

\* continue: the entry is smaller than the minimum size.
StepSkipSmall ==
    /\ pc = "walk"
    /\ steps < MaxItems
    /\ \E it \in WalkerItems :
        /\ it.ok /\ ~TooDeep(it) /\ ~it.is_dir
        /\ Recordable(it) /\ TooSmall(it.metadata.val)
        /\ Take(it)
    /\ drawn' = FALSE
    /\ UNCHANGED <<opt, target_len, pc, terminal, exit_code, cause, total, entries, frame,
                   deepest, resolved, exported>>

\* The entry is added to the total and to the map, and the frame is drawn.
StepInsert ==
    /\ pc = "walk"
    /\ steps < MaxItems
    /\ \E it \in WalkerItems :
        /\ it.ok /\ ~TooDeep(it) /\ ~it.is_dir
        /\ Recordable(it) /\ ~TooSmall(it.metadata.val)
        /\ Take(it)
        /\ total' = total + it.metadata.val
        /\ entries' = Insert(entries, ToStr(RealPath(it)).val, it.metadata.val)
        /\ deepest' = IF it.depth > deepest THEN it.depth ELSE deepest
        /\ resolved' = IF it.path_is_symlink /\ it.read_link.some
                       THEN resolved \cup {ToStr(RealPath(it)).val}
                       ELSE resolved
    /\ Draw
    /\ UNCHANGED <<opt, target_len, exported>>

\* The walker's item is an error, or the entry's path or metadata cannot be
\* read: nothing is recorded and the frame is drawn.
StepPass ==
    /\ pc = "walk"
    /\ steps < MaxItems
    /\ \E it \in WalkerItems :
        /\ \/ ~it.ok
           \/ it.ok /\ ~TooDeep(it) /\ ~it.is_dir /\ ~Recordable(it)
        /\ Take(it)
    /\ UNCHANGED <<total, entries, deepest, resolved>>
    /\ Draw
    /\ UNCHANGED <<opt, target_len, exported>>

\* The walker has nothing more to yield: the for loop ends.
WalkEnd ==
    /\ pc = "walk"
    /\ steps > 0
    /\ pc' = "export"
    /\ UNCHANGED <<opt, target_len, terminal, exit_code, cause, walk, agg, exported>>

\* ------------------------------------------------------------ the export
\* No output file was asked for: main returns Ok(()).
Finish ==
    /\ pc = "export"
    /\ ~opt.output_file
    /\ Leave(ExitOk, "ok")
    /\ UNCHANGED <<opt, target_len, walk, agg, exported>>

\* csv::Writer::from_path(output_file)? fails.
ExportCreateFails ==
    /\ pc = "export"
    /\ opt.output_file
    /\ Leave(ExitErr, "create")
    /\ UNCHANGED <<opt, target_len, walk, agg, exported>>

\* wtr.write_record(..).unwrap() panics at row i, after i - 1 rows.
ExportWritePanics ==
    /\ pc = "export"
    /\ opt.output_file
    /\ \E i \in 1..Cardinality(DOMAIN entries) :
        exported' = [created |-> TRUE, from |-> Snapshot(entries, total),
                     written |-> i - 1, flushed |-> FALSE]
    /\ Leave(ExitPanic, "write")
    /\ UNCHANGED <<opt, target_len, walk, agg>>

\* wtr.flush()? fails after every row was handed to the writer.
ExportFlushFails ==
    /\ pc = "export"
    /\ opt.output_file
    /\ exported' = [created |-> TRUE, from |-> Snapshot(entries, total),
                    written |-> Cardinality(DOMAIN entries), flushed |-> FALSE]
    /\ Leave(ExitErr, "flush")
    /\ UNCHANGED <<opt, target_len, walk, agg>>

\* Every row is written and flushed: main returns Ok(()).
Export ==
    /\ pc = "export"
    /\ opt.output_file
    /\ exported' = [created |-> TRUE, from |-> Snapshot(entries, total),
                    written |-> Cardinality(DOMAIN entries), flushed |-> TRUE]
    /\ Leave(ExitOk, "ok")
    /\ UNCHANGED <<opt, target_len, walk, agg>>

Next ==
    \/ RawModeFails
    \/ TerminalNewFails
    \/ TerminalInit
    \/ RegexInvalid
    \/ RegexReady
    \/ StepBreak
    \/ StepSkipDir
    \/ StepSkipSmall
    \/ StepInsert
    \/ StepPass
    \/ WalkEnd
    \/ Finish
    \/ ExportCreateFails
    \/ ExportWritePanics
    \/ ExportFlushFails
    \/ Export

Spec == Init /\ [][Next]_vars

\* ================================================================ properties
RECURSIVE SumSizes(_)
\* The sum of the sizes stored in a map.
SumSizes(m) ==
    IF DOMAIN m = {} THEN 0
    ELSE LET k == CHOOSE x \in DOMAIN m : TRUE
         IN m[k] + SumSizes([x \in DOMAIN m \ {k} |-> m[x]])

\* A depth limit is in force.
DepthLimit == opt.depth.some /\ opt.depth.val > 0

\* The minimum size in force.
MinSize == UnwrapOr(opt.min_size, 0)

\* The snapshots a user gets to see: the latest frame and the export.
Observed ==
    (IF frame.shown THEN {frame} ELSE {})
    \cup (IF exported.created THEN {exported.from} ELSE {})

\* C1: at every frame drawn and at export time, the running total equals the
\* sum of the sizes stored in the path-to-size map, also when the same
\* resolved path is accepted more than once.
C1_TotalIsSumOfSizes ==
    /\ total = SumSizes(entries)
    /\ \A snap \in Observed : snap.total = SumSizes(snap.entries)

\* C2: with a filter pattern configured, no key of the final path-to-size map
\* is a path the pattern matches.
C2_NoMatchedKey ==
    (pc \in {"export", "exited"} /\ opt.filter.some /\ RegexValid(opt.filter.val))
        => \A k \in DOMAIN entries : ~IsMatch(opt.filter.val, k)

\* C3: every size stored in the map, shown in a frame or exported is at
\* least min_size, and an iteration that takes an entry whose size is below
\* min_size leaves the map and the running total as they were.
C3_MinSizeRespected ==
    /\ [](/\ \A k \in DOMAIN entries : entries[k] >= MinSize
          /\ \A snap \in Observed : \A rows \in RowsOf(snap) :
                \A i \in DOMAIN rows : rows[i].size_bytes >= MinSize)
    /\ [][(steps' = steps + 1 /\ item'.ok /\ item'.metadata.some
              /\ item'.metadata.val < MinSize)
            => (entries' = entries /\ total' = total)]_vars

\* C3 witness: an entry below the minimum was skipped after another was
\* recorded.
C3_Witness ==
    /\ pc = "walk"
    /\ item.ok /\ ~item.is_dir /\ item.metadata.some
    /\ item.metadata.val < MinSize
    /\ DOMAIN entries # {}

\* C4: with depth set to d > 0, every entry recorded in the map was yielded
\* by the walker at depth d or less.
C4_RecordedWithinDepth == DepthLimit => deepest <= opt.depth.val

\* C4 witness: under a depth limit, an entry at the limit depth was recorded
\* and drawn.
C4_Witness ==
    /\ DepthLimit
    /\ deepest = opt.depth.val
    /\ DOMAIN entries # {}
    /\ frame.shown

\* C5: every item the walker yields is followed by one full redraw before
\* the next item is taken.
C5_RedrawEveryStep == (steps > 0 /\ pc \in {"walk", "export"}) => drawn

\* C6: on every exit path the terminal is back in its original mode when the
\* process terminates.
C6_TerminalRestored == pc = "exited" => terminal = OriginalTerminal

\* C6 witness: main was left by the panic of a failed export row, after the
\* terminal had been set up.
C6_Witness == pc = "exited" /\ cause = "write" /\ exit_code = ExitPanic

\* The fallback "0.00%".
ZeroPercent == [kind |-> "num", hundredths |-> 0]

\* C7: a row rendered or exported while the running total is 0 shows the
\* fallback "0.00%".
C7_ZeroTotalFallback ==
    \A snap \in Observed :
        snap.total = 0 =>
            \A rows \in RowsOf(snap) :
                \A i \in DOMAIN rows : rows[i].percentage = ZeroPercent

\* C8: with disable_symlinks set, no key of the map is the target path of a
\* symbolic link and no recorded entry was reached through one.
C8_NoSymlinkTargetKeys == opt.disable_symlinks => resolved = {}

\* C9: the process exits with 0 on normal completion and with a non-zero code
\* on every fatal error, an inaccessible scan root among them.
C9_ExitCodes ==
    pc = "exited" =>
        IF cause = "ok" /\ root # "error" THEN exit_code = 0 ELSE exit_code # 0

\* C10 as stated: with depth set to d > 0, the loop ends at the first walker
\* item whose depth exceeds d, and that item is neither aggregated nor drawn.
C10_EndsAtFirstDeepItem ==
    [][(steps' = steps + 1 /\ DepthLimit /\ item'.depth > opt.depth.val)
        => (pc' = "export" /\ ~drawn' /\ entries' = entries /\ total' = total
            /\ frame' = frame)]_vars

\* C10 as amended: with depth set to d > 0, the loop ends at the first entry
\* the walker yields successfully whose depth exceeds d; that entry is neither
\* aggregated nor drawn, nothing is taken from the walker after it, and the
\* export is written from the state reached at that point.
C10_EndsAtFirstDeepEntry ==
    [][/\ (steps' = steps + 1 /\ DepthLimit /\ item'.ok /\ item'.depth > opt.depth.val)
            => (pc' = "export" /\ ~drawn' /\ entries' = entries /\ total' = total
                /\ frame' = frame)
       /\ pc = "export"
            => /\ UNCHANGED <<steps, item, entries, total, frame, drawn>>
               /\ exported'.created => exported'.from = Snapshot(entries, total)]_vars

\* C10 witness: the loop was ended by an entry beyond the limit and the
\* export was then written.
C10_Witness ==
    /\ pc = "exited"
    /\ DepthLimit /\ item.ok /\ item.depth > opt.depth.val
    /\ exported.flushed
====
